---- MODULE Spec2Model ----
(***************************************************************************)
(* Benders decomposition for the tabular Cell Suppression Problem.         *)
(*                                                                         *)
(* The model follows suppress.run: the diving heuristic                    *)
(* (Solver.heuristic_solve), redundancy removal                             *)
(* (Solver.remove_redundant_suppressions), the optional exact phase        *)
(* (Solver.complete_solve with my_callback) and the hand-over to the       *)
(* writer.  The two external oracles are modelled by what they return:     *)
(*   - the Master MIP returns some pattern that satisfies the variable     *)
(*     bounds and every constraint of the pool (the solve stops on a time  *)
(*     or gap limit, so the pattern need not be the cheapest one);         *)
(*   - the Attacker LP returns its optimum, some optimal primal point and  *)
(*     the reduced costs of some optimal dual solution.                    *)
(* All instances used have integer data and relation matrices in which a   *)
(* cell occurs in at most two relations, with opposite signs (network      *)
(* matrices, totally unimodular), so the LP optimum is attained at integer *)
(* points and integer duals, and the LP is solved here by enumeration.     *)
(***************************************************************************)
EXTENDS Integers, Sequences, FiniteSets, TLC

VARIABLES
    my_file,            \* the input file given to read.data (Nothing: already read)
    data,               \* the instance returned by read.data
    args,               \* the command line arguments (read.arguments)
    pc,                 \* position of the driver
    caller,             \* who started the running SubProblem pass
    i,                  \* index in the UPL / LPL loop of SubProblem.solve
    m_lb, m_ub,         \* Master: variable bounds
    constrs,            \* Master: the constraint pool, in order of addition
    lazy,               \* Master: lazy cuts registered in the exact search
    m_x,                \* Master: var.x, the pattern of the last solve
    dummy_constraint,   \* heuristic_solve: the growth-floor constraint (NoConstraint: none)
    supp_level,         \* Attacker.supp_level (aliased by the driver's supp_levels)
    a_lb, a_ub,         \* Attacker: variable bounds
    HIGH, LOW,          \* SubProblem: running bounds
    HIGH_LOW_cells,     \* SubProblem: cells whose bounds are tracked
    constraints_added,  \* SubProblem: cuts added in the running pass
    max_constraints_per_iteration,
    callback,           \* SubProblem.callback
    bounds,             \* run: inference bounds returned by redundancy removal
    ret_supp,           \* run: pattern returned by redundancy removal
    incumbent,          \* exact search: best accepted incumbent (Nothing: none)
    candidate,          \* exact search: solution handed to my_callback
    written,            \* what write.solution received 
    round,              \* heuristic_solve: number of Master solves so far
    passes              \* protection check harness: passes completed

vars == <<my_file, data, args, pc, caller, i, m_lb, m_ub, constrs, lazy, m_x,
          dummy_constraint, supp_level, a_lb, a_ub, HIGH, LOW, HIGH_LOW_cells,
          constraints_added, max_constraints_per_iteration, callback, bounds,
          ret_supp, incumbent, candidate, written, round, passes>>

-----------------------------------------------------------------------------
(* Arithmetic helpers *)

RECURSIVE SumOver(_, _)
SumOver(f, S) ==
    IF S = {} THEN 0
    ELSE LET c == CHOOSE x \in S : TRUE IN f[c] + SumOver(f, S \ {c})

Min2(a, b) == IF a <= b THEN a ELSE b
Max2(a, b) == IF a >= b THEN a ELSE b
Abs(a) == IF a < 0 THEN -a ELSE a

SetMax(S) == CHOOSE x \in S : \A y \in S : y <= x
SetMin(S) == CHOOSE x \in S : \A y \in S : x <= y

-----------------------------------------------------------------------------
(* Bounds of the model *)

\* per-iteration cut caps range over 0..MaxCap
MaxCap == 1

\* the most Master solves one dive is followed for
MaxRounds == 6

-----------------------------------------------------------------------------
(* The instance: read.data *)

\* One cell line of the input file:
\* <<nominal, weight, status, lb, ub, LPL, UPL>>, status "u" for a sensitive
\* cell, "z" for a structural zero, "s" otherwise.
\* One relation line: a sequence of <<cell id, coefficient>>.

ReadCell(info) ==
    [nominal   |-> info[1],
     sensitive |-> info[3] = "u",
     weight    |-> info[2],
     lb        |-> info[4],
     ub        |-> info[5],
     LB        |-> info[1] - info[4],
     UB        |-> info[5] - info[1]]

IsPlus(entry) == entry[2] = 1
IsMinus(entry) == entry[2] = -1

\* <<positive side, negative side>>, each the list of its cell ids
ReadRelation(line) ==
    LET plus  == SelectSeq(line, IsPlus)
        minus == SelectSeq(line, IsMinus)
    IN  << [k \in 1..Len(plus) |-> plus[k][1]],
           [k \in 1..Len(minus) |-> minus[k][1]] >>

ReadData(cell_lines, relation_lines) ==
    LET cells == [c \in 1..Len(cell_lines) |-> ReadCell(cell_lines[c])]
        sens  == {c \in 1..Len(cell_lines) : cells[c].sensitive}
    IN  [cells           |-> cells,
         sensitive_cells |-> [c \in sens |-> [UPL |-> cell_lines[c][7],
                                              LPL |-> cell_lines[c][6]]],
         relations       |-> [r \in 1..Len(relation_lines) |->
                                  ReadRelation(relation_lines[r])],
         num_nz          |-> Cardinality({c \in 1..Len(cell_lines) :
                                              cells[c].nominal # 0})]

\* a + b = c, c sensitive and needing both a and b to reach its UPL
TableA ==
    ReadData(<< <<2, 1, "s", 1, 3, 0, 0>>,
                <<3, 1, "s", 2, 4, 0, 0>>,
                <<5, 1, "u", 3, 7, 1, 2>> >>,
             << << <<1, 1>>, <<2, 1>>, <<3, -1>> >> >>)

\* the same table, the sensitive cell with protection limits 0
TableZeroLimits ==
    ReadData(<< <<2, 1, "s", 1, 3, 0, 0>>,
                <<3, 1, "s", 2, 4, 0, 0>>,
                <<5, 1, "u", 3, 7, 0, 0>> >>,
             << << <<1, 1>>, <<2, 1>>, <<3, -1>> >> >>)

\* two sensitive cells of one relation protect each other
TableCoSensitive ==
    ReadData(<< <<2, 1, "u", 1, 3, 1, 1>>,
                <<3, 1, "u", 2, 4, 1, 1>>,
                <<5, 1, "s", 4, 6, 0, 0>> >>,
             << << <<1, 1>>, <<2, 1>>, <<3, -1>> >> >>)

\* two linked relations a + b = c, c + z = e with a structural zero z whose
\* upper bound is positive; a sensitive, weights differ
TableChain ==
    ReadData(<< <<1, 1, "u", 0, 2, 1, 1>>,
                <<1, 2, "s", 0, 2, 0, 0>>,
                <<2, 1, "s", 1, 3, 0, 0>>,
                <<0, 1, "z", 0, 1, 0, 0>>,
                <<2, 1, "s", 1, 3, 0, 0>> >>,
             << << <<1, 1>>, <<2, 1>>, <<3, -1>> >>,
                << <<3, 1>>, <<4, 1>>, <<5, -1>> >> >>)

\* two separate relations a = b and c = d (cells shared by linked tables),
\* a and c sensitive
TableTwoBlocks ==
    ReadData(<< <<1, 1, "u", 0, 2, 1, 1>>,
                <<1, 1, "s", 0, 2, 0, 0>>,
                <<2, 1, "u", 1, 3, 1, 1>>,
                <<2, 1, "s", 1, 3, 0, 0>> >>,
             << << <<1, 1>>, <<2, -1>> >>,
                << <<3, 1>>, <<4, -1>> >> >>)

\* protection limits no pattern can meet
TableUnprotectable ==
    ReadData(<< <<2, 1, "s", 1, 3, 0, 0>>,
                <<3, 1, "s", 2, 4, 0, 0>>,
                <<5, 1, "u", 3, 9, 1, 3>> >>,
             << << <<1, 1>>, <<2, 1>>, <<3, -1>> >> >>)

Instances ==
    {TableA, TableZeroLimits, TableCoSensitive, TableChain, TableTwoBlocks,
     TableUnprotectable}

\* growth multipliers, as <<numerator, denominator>>: 1.0 (the default), 1.5, 2.0
Multipliers == {<<1, 1>>, <<3, 2>>, <<2, 1>>}

\* the defaults of read.arguments and of SubProblem.__init__
default_heuristic_constraints == 50
default_optimise_constraints == 50
default_max_iterations_per_sub_problem == 50
default_multiplier == <<1, 1>>

\* the command lines: heuristic runs over every cap, multiplier and seeding
\* toggle; runs with the exact phase over every cap of that phase
Arguments ==
    [heuristic_constraints       : 0..MaxCap,
     optimise_constraints        : {default_optimise_constraints},
     multiplier                  : Multipliers,
     ignore_starting_constraints : BOOLEAN,
     optimise                    : {FALSE}]
    \cup
    [heuristic_constraints       : {default_heuristic_constraints},
     optimise_constraints        : 0..MaxCap,
     multiplier                  : {default_multiplier},
     ignore_starting_constraints : BOOLEAN,
     optimise                    : {TRUE}]

Cells == DOMAIN data.cells
Sensitive == DOMAIN data.sensitive_cells
Relations == DOMAIN data.relations
nominal(c) == data.cells[c].nominal

Range(seq) == {seq[k] : k \in DOMAIN seq}

RECURSIVE ConcatAll(_)
ConcatAll(seqs) ==
    IF Len(seqs) = 0 THEN <<>> ELSE Head(seqs) \o ConcatAll(Tail(seqs))

-----------------------------------------------------------------------------
(* The Attacker LP: attacker.py *)

\* coefficient of a cell in the gamma constraint lhs - rhs = 0 of a relation
GammaCoef(r, c) ==
    (IF c \in Range(data.relations[r][1]) THEN 1 ELSE 0)
    - (IF c \in Range(data.relations[r][2]) THEN 1 ELSE 0)

\* a lower bound moved up from the nominal instead of down
UpdatedLB_raised(supp) == [c \in Cells |-> nominal(c) + data.cells[c].LB * supp[c]]

\* the variable bounds set by update_bounds for a suppression level
UpdatedUB(supp) == [c \in Cells |-> nominal(c) + data.cells[c].UB * supp[c]]
UpdatedLB(supp) == [c \in Cells |-> nominal(c) - data.cells[c].LB * supp[c]]

RECURSIVE Box(_, _, _)
Box(lb, ub, n) ==
    IF n = 0 THEN {<<>>}
    ELSE {Append(y, v) : y \in Box(lb, ub, n - 1), v \in lb[n]..ub[n]}

GammaHolds(y) ==
    \A r \in Relations :
        SumOver(y, Range(data.relations[r][1])) = SumOver(y, Range(data.relations[r][2]))

\* the points of the LP's feasible region that matter: its integer points
AttackerFeasible(lb, ub) == {y \in Box(lb, ub, Len(data.cells)) : GammaHolds(y)}

\* optimise(target_cell, maximise): m.objVal
ObjVal(lb, ub, target_cell, maximise) ==
    LET values == {y[target_cell] : y \in AttackerFeasible(lb, ub)}
    IN  IF maximise THEN SetMax(values) ELSE SetMin(values)

\* the primal solutions (vars[cell].x) the solve may end on
OptimalX(lb, ub, target_cell, maximise) ==
    LET F == AttackerFeasible(lb, ub)
        values == {y[target_cell] : y \in F}
        best == IF maximise THEN SetMax(values) ELSE SetMin(values)
    IN  {y \in F : y[target_cell] = best}

\* reduced costs c - A'pi for dual multipliers pi
ReducedCost(pi, target_cell) ==
    [c \in Cells |->
        (IF c = target_cell THEN 1 ELSE 0)
        - SumOver([r \in Relations |-> pi[r] * GammaCoef(r, c)], Relations)]

\* the dual objective: a variable with positive reduced cost sits at its upper
\* bound when maximising and at its lower bound when minimising
DualObj(rc, lb, ub, maximise) ==
    SumOver([c \in Cells |->
                IF rc[c] = 0 THEN 0
                ELSE IF (rc[c] > 0) = maximise THEN rc[c] * ub[c]
                ELSE rc[c] * lb[c]], Cells)

\* the multipliers of a basic dual solution: the relation matrix is a network
\* matrix and the objective a unit vector, so they are -1, 0 or 1
DualMultipliers == {-1, 0, 1}

\* the reduced costs of any dual solution, optimal or not
OptimalRC_any_dual(lb, ub, target_cell, maximise) ==
    {ReducedCost(pi, target_cell) : pi \in [Relations -> DualMultipliers]}

\* the reduced costs (vars[cell].RC) the solve may end on: those of an
\* optimal dual solution
OptimalRC(lb, ub, target_cell, maximise) ==
    LET best == ObjVal(lb, ub, target_cell, maximise)
    IN  {rc \in {ReducedCost(pi, target_cell) :
                    pi \in [Relations -> DualMultipliers]} :
            DualObj(rc, lb, ub, maximise) = best}

-----------------------------------------------------------------------------
(* The Master: master.py *)

\* create_vars
InitialLB(c) == IF data.cells[c].sensitive THEN 1 ELSE 0
InitialUB(c) == IF nominal(c) = 0 THEN 0 ELSE 1
Weight(c) == data.cells[c].weight

\* a constraint  sum(coef[c] * var[c]) >= rhs
Constraint(name, coef, rhs) == [name |-> name, coef |-> coef, rhs |-> rhs]

Satisfies(p, k) == SumOver([c \in Cells |-> k.coef[c] * p[c]], Cells) >= k.rhs

\* a sum that counts every other cell of the relation, sensitive or not
CoSensitive_every_cell(cell, up_side, down_side) ==
    SumOver([c \in Cells |-> data.cells[c].UB], {c \in Range(up_side) : c # cell})
    + SumOver([c \in Cells |-> data.cells[c].LB], {c \in Range(down_side) : c # cell})

\* sum of the static magnitudes of the other sensitive cells of a relation
CoSensitive(cell, up_side, down_side) ==
    SumOver([c \in Cells |-> data.cells[c].UB],
            {c \in Range(up_side) : data.cells[c].sensitive /\ c # cell})
    + SumOver([c \in Cells |-> data.cells[c].LB],
              {c \in Range(down_side) : data.cells[c].sensitive /\ c # cell})

StaticCoef(cell, up_side, down_side, limit) ==
    [c \in Cells |->
        (IF c \in Range(up_side) /\ c # cell
            THEN Min2(data.cells[c].UB, limit) ELSE 0)
        + (IF c \in Range(down_side) /\ c # cell
            THEN Min2(data.cells[c].LB, limit) ELSE 0)]

\* the protection constraints seeded for one sensitive cell of one relation
SeedProtection(r, cell) ==
    LET cells   == data.relations[r]
        Q_plus  == IF cell \in Range(cells[1]) THEN cells[2] ELSE cells[1]
        Q_minus == IF cell \in Range(cells[1]) THEN cells[1] ELSE cells[2]
        UPL     == data.sensitive_cells[cell].UPL
        LPL     == data.sensitive_cells[cell].LPL
    IN  (IF CoSensitive(cell, Q_plus, Q_minus) < UPL
            THEN << Constraint(<<"init_upper", r>>,
                               StaticCoef(cell, Q_plus, Q_minus, UPL), UPL) >>
            ELSE <<>>)
        \o
        (IF CoSensitive(cell, Q_minus, Q_plus) < LPL
            THEN << Constraint(<<"init_lower", r>>,
                               StaticCoef(cell, Q_minus, Q_plus, LPL), LPL) >>
            ELSE <<>>)

\* the bridge constraint of one cell of a relation
SeedBridge(r, cell) ==
    LET all_cells == data.relations[r][1] \o data.relations[r][2]
    IN  Constraint(<<"init_bridge", r, cell>>,
                   [c \in Cells |->
                       (IF c \in Range(all_cells) /\ c # cell /\ nominal(c) > 0
                           THEN 1 ELSE 0)
                       - (IF c = cell THEN 1 ELSE 0)],
                   0)

SeedRelation(r) ==
    LET all_cells == data.relations[r][1] \o data.relations[r][2]
        num_sensitive_cells ==
            Cardinality({k \in DOMAIN all_cells : data.cells[all_cells[k]].sensitive})
    IN  ConcatAll([k \in DOMAIN all_cells |->
                      IF data.cells[all_cells[k]].sensitive
                      THEN SeedProtection(r, all_cells[k]) ELSE <<>>])
        \o
        (IF num_sensitive_cells < 2
            THEN [k \in DOMAIN all_cells |-> SeedBridge(r, all_cells[k])]
            ELSE <<>>)

\* create_initial_constraints
InitialConstraints == ConcatAll([r \in Relations |-> SeedRelation(r)])

\* the patterns a Master solve may return: within the variable bounds and
\* satisfying the pool and the lazy cuts
MasterFeasible(lb, ub, pool, cuts) ==
    {p \in [Cells -> {0, 1}] :
        /\ \A c \in Cells : lb[c] <= p[c] /\ p[c] <= ub[c]
        /\ \A k \in DOMAIN pool : Satisfies(p, pool[k])
        /\ \A k \in cuts : Satisfies(p, k)}

Objective(p) == SumOver([c \in Cells |-> Weight(c) * p[c]], Cells)

-----------------------------------------------------------------------------
(* The SubProblem: subproblem.py *)

\* sorted(keys, key, reverse=True): non-increasing key, ties in key order
RECURSIVE SortedNonIncreasing(_, _)
SortedNonIncreasing(S, key) ==
    IF S = {} THEN <<>>
    ELSE LET first == CHOOSE c \in S :
                          \A d \in S : key[c] > key[d] \/ (key[c] = key[d] /\ c <= d)
         IN  <<first>> \o SortedNonIncreasing(S \ {first}, key)

non_increasing_UPL_sensitive_cells ==
    SortedNonIncreasing(Sensitive, [c \in Sensitive |-> data.sensitive_cells[c].UPL])

non_increasing_LPL_sensitive_cells ==
    SortedNonIncreasing(Sensitive, [c \in Sensitive |-> data.sensitive_cells[c].LPL])

\* default_nominal_dict
default_nominal_dict == [c \in Cells |-> nominal(c)]

\* a solve that ignores the extended flag
TrackedCells_sensitive_only(extended, supp) == Sensitive

\* the cells solve tracks: the suppressed ones in extended mode
TrackedCells(extended, supp) ==
    IF extended THEN {c \in Cells : supp[c] = 1} ELSE Sensitive

\* the guard of the two loops of solve
WithinCap(added, cap) == added <= cap

\* process_upper_protection_level: is the attacker problem solved at all
UpperUnproven(cell, high) ==
    high[cell] < nominal(cell) + data.sensitive_cells[cell].UPL

\* a check that also rejects an optimum that just meets the limit
UpperViolated_or_met(cell, y_max) ==
    nominal(cell) + data.sensitive_cells[cell].UPL >= y_max

\* process_upper_protection_level: does the optimum violate the limit
UpperViolated(cell, y_max) ==
    nominal(cell) + data.sensitive_cells[cell].UPL > y_max

LowerUnproven(cell, low) ==
    low[cell] > nominal(cell) - data.sensitive_cells[cell].LPL

LowerViolated(cell, y_min) ==
    nominal(cell) - data.sensitive_cells[cell].LPL < y_min

\* an update that overwrites the running bound with the last solution
UpdatedHigh_overwritten(high, tracked, x) ==
    [c \in Cells |-> IF c \in tracked THEN x[c] ELSE high[c]]

\* update_high_low
UpdatedHigh(high, tracked, x) ==
    [c \in Cells |-> IF c \in tracked THEN Max2(high[c], x[c]) ELSE high[c]]

UpdatedLow(low, tracked, x) ==
    [c \in Cells |-> IF c \in tracked THEN Min2(low[c], x[c]) ELSE low[c]]

\* add_upper_constraint_to_master
UpperCut(sensitive_cell, rc) ==
    LET protection_limit == data.sensitive_cells[sensitive_cell].UPL
    IN  Constraint(<<"lazy_upper", sensitive_cell>>,
            [c \in Cells |->
                IF rc[c] > 0 /\ nominal(c) # 0
                    THEN Min2(Abs(rc[c]) * data.cells[c].UB, protection_limit)
                ELSE IF rc[c] < 0 /\ nominal(c) # 0
                    THEN Min2(Abs(rc[c]) * data.cells[c].LB, protection_limit)
                ELSE 0],
            protection_limit)

\* add_lower_constraint_to_master
LowerCut(sensitive_cell, rc) ==
    LET protect_limit == data.sensitive_cells[sensitive_cell].LPL
    IN  Constraint(<<"lazy_lower", sensitive_cell>>,
            [c \in Cells |->
                IF rc[c] > 0
                    THEN Min2(Abs(rc[c]) * data.cells[c].LB, protect_limit)
                ELSE IF rc[c] < 0
                    THEN Min2(Abs(rc[c]) * data.cells[c].UB, protect_limit)
                ELSE 0],
            protect_limit)

\* a solve whose bounds are not refreshed unless asked for
solve_default_no_refresh == FALSE

\* solve(reset_model=False, refresh_bounds=True, extended=False): the defaults
solve_default_refresh_bounds == TRUE
solve_default_extended == FALSE

\* the start of solve(refresh_bounds, extended) after update_bounds(supp)
BeginPass(supp, refresh_bounds, extended, who) ==
    /\ supp_level' = supp
    /\ a_ub' = UpdatedUB(supp)
    /\ a_lb' = UpdatedLB(supp)
    /\ constraints_added' = 0
    /\ HIGH' = IF refresh_bounds THEN default_nominal_dict ELSE HIGH
    /\ LOW' = IF refresh_bounds THEN default_nominal_dict ELSE LOW
    /\ HIGH_LOW_cells' = TrackedCells(extended, supp)
    /\ caller' = who
    /\ i' = 1
    /\ pc' = IF Len(non_increasing_UPL_sensitive_cells) = 0 THEN "solved" ELSE "upl"

\* a cut goes to the pool, or to the running search as a lazy cut
Deliver(cut) ==
    IF callback
        THEN lazy' = lazy \cup {cut} /\ UNCHANGED constrs
        ELSE constrs' = Append(constrs, cut) /\ UNCHANGED lazy

\* one turn of the UPL loop of solve
process_upper_protection_level ==
    /\ pc = "upl"
    /\ LET cell == non_increasing_UPL_sensitive_cells[i]
       IN  IF WithinCap(constraints_added, max_constraints_per_iteration)
                /\ UpperUnproven(cell, HIGH)
           THEN IF UpperViolated(cell, ObjVal(a_lb, a_ub, cell, TRUE))
                THEN /\ \E rc \in OptimalRC(a_lb, a_ub, cell, TRUE) :
                            Deliver(UpperCut(cell, rc))
                     /\ constraints_added' = constraints_added + 1
                     /\ UNCHANGED <<HIGH, LOW>>
                ELSE /\ \E x \in OptimalX(a_lb, a_ub, cell, TRUE) :
                            /\ HIGH' = UpdatedHigh(HIGH, HIGH_LOW_cells, x)
                            /\ LOW' = UpdatedLow(LOW, HIGH_LOW_cells, x)
                     /\ UNCHANGED <<constrs, lazy, constraints_added>>
           ELSE UNCHANGED <<HIGH, LOW, constrs, lazy, constraints_added>>
    /\ IF i < Len(non_increasing_UPL_sensitive_cells)
           THEN i' = i + 1 /\ pc' = "upl"
           ELSE i' = 1 /\ pc' = "lpl"
    /\ UNCHANGED <<my_file, data, args, caller, m_lb, m_ub, m_x, dummy_constraint,
                   supp_level, a_lb, a_ub, HIGH_LOW_cells,
                   max_constraints_per_iteration, callback, bounds, ret_supp,
                   incumbent, candidate, written, round, passes>>

\* one turn of the LPL loop of solve
process_lower_protection_level ==
    /\ pc = "lpl"
    /\ LET cell == non_increasing_LPL_sensitive_cells[i]
       IN  IF WithinCap(constraints_added, max_constraints_per_iteration)
                /\ LowerUnproven(cell, LOW)
           THEN IF LowerViolated(cell, ObjVal(a_lb, a_ub, cell, FALSE))
                THEN /\ \E rc \in OptimalRC(a_lb, a_ub, cell, FALSE) :
                            Deliver(LowerCut(cell, rc))
                     /\ constraints_added' = constraints_added + 1
                     /\ UNCHANGED <<HIGH, LOW>>
                ELSE /\ \E x \in OptimalX(a_lb, a_ub, cell, FALSE) :
                            /\ HIGH' = UpdatedHigh(HIGH, HIGH_LOW_cells, x)
                            /\ LOW' = UpdatedLow(LOW, HIGH_LOW_cells, x)
                     /\ UNCHANGED <<constrs, lazy, constraints_added>>
           ELSE UNCHANGED <<HIGH, LOW, constrs, lazy, constraints_added>>
    /\ IF i < Len(non_increasing_LPL_sensitive_cells)
           THEN i' = i + 1 /\ pc' = "lpl"
           ELSE i' = 1 /\ pc' = "solved"
    /\ UNCHANGED <<my_file, data, args, caller, m_lb, m_ub, m_x, dummy_constraint,
                   supp_level, a_lb, a_ub, HIGH_LOW_cells,
                   max_constraints_per_iteration, callback, bounds, ret_supp,
                   incumbent, candidate, written, round, passes>>

-----------------------------------------------------------------------------
(* The driver: solver.py and suppress.py *)

\* a driver that forgets the diving step: lower bounds stay at their defaults
DivingLB_forgotten(c, supp_levels) == IF data.cells[c].sensitive THEN 1 ELSE 0

\* heuristic_solve: the lower bound a variable gets after a round with cuts
DivingLB(c, supp_levels) == supp_levels[c]

\* a count of the cells that are not suppressed (value < 1 for value >= 1)
num_suppressions_inverted(supp_levels) ==
    Cardinality({c \in Cells : supp_levels[c] < 1})

\* heuristic_solve: the number of suppressions counted in a pattern
num_suppressions(supp_levels) == Cardinality({c \in Cells : supp_levels[c] >= 1})

\* a growth floor that is not capped at the number of non-zero cells
GrowthFloor_uncapped(supp_levels, multiplier) ==
    [name |-> <<"dummy">>,
     coef |-> [c \in Cells |-> multiplier[2]],
     rhs  |-> Cardinality({c \in Cells : supp_levels[c] >= 1}) * multiplier[1]]

\* heuristic_solve: the growth floor  sum(vars) >= min(count * multiplier, num_nz),
\* both sides multiplied by the multiplier's denominator
GrowthFloor(supp_levels, multiplier) ==
    Constraint(<<"dummy">>,
               [c \in Cells |-> multiplier[2]],
               Min2(num_suppressions(supp_levels) * multiplier[1],
                    data.num_nz * multiplier[2]))

\* heuristic_solve: dummy_constraint = NoConstraint, no growth floor yet
NoConstraint == Constraint(<<"none">>, <<>>, 0)

\* nothing yet: no incumbent, no returned pattern, no bounds
Nothing == <<>>

\* a removal that leaves the pool as it is
RemoveConstr_skipped(pool, k) == pool

\* mdl.remove(dummy_constraint)
RemoveConstr(pool, k) == SelectSeq(pool, LAMBDA e : e # k)

\* lower bounds left where the dive raised them
ResetLB_skipped(c) == m_lb[c]

\* reset_lower_bounds
ResetLB(c) == IF data.cells[c].sensitive THEN 1 ELSE 0

\* remove_redundant_suppressions: the inference bounds of a cell
InferenceBounds(c, supp, low, high) ==
    IF supp[c] = 1 THEN <<low[c], high[c]>> ELSE <<nominal(c), nominal(c)>>

\* remove_redundant_suppressions: is the suppression of a cell redundant
Redundant(c, supp, low, high) ==
    supp[c] = 1 /\ InferenceBounds(c, supp, low, high)[2]
                   - InferenceBounds(c, supp, low, high)[1] <= 0

\* run: what is handed to write.solution
WriterInput(heuristic_supp, heuristic_bounds, best) ==
    [supp_levels |-> heuristic_supp, bounds |-> heuristic_bounds]

\* Solver.solve(complete=False) up to the loop of heuristic_solve
solve_heuristic ==
    /\ pc = "start"
    /\ max_constraints_per_iteration' = args.heuristic_constraints
    /\ HIGH' = default_nominal_dict
    /\ LOW' = default_nominal_dict
    /\ dummy_constraint' = NoConstraint
    /\ pc' = "master"
    /\ UNCHANGED <<my_file, data, args, caller, i, m_lb, m_ub, constrs, lazy, m_x,
                   supp_level, a_lb, a_ub, HIGH_LOW_cells, constraints_added,
                   callback, bounds, ret_supp, incumbent, candidate, written,
                   round, passes>>

\* heuristic_solve: the Master solve of a round, up to the SubProblem pass
heuristic_round ==
    /\ pc = "master"
    /\ round < MaxRounds
    /\ IF MasterFeasible(m_lb, m_ub, constrs, {}) = {}
       THEN \* MasterInfeasible: no var.x to read
            /\ pc' = "fatal"
            /\ UNCHANGED <<m_x, constrs, supp_level, a_lb, a_ub, constraints_added,
                           HIGH, LOW, HIGH_LOW_cells, caller, i, round>>
       ELSE \E p \in MasterFeasible(m_lb, m_ub, constrs, {}) :
                /\ m_x' = p
                /\ constrs' = IF dummy_constraint # NoConstraint
                                 THEN RemoveConstr(constrs, dummy_constraint)
                                 ELSE constrs
                /\ round' = round + 1
                /\ BeginPass(p, FALSE, FALSE, "heuristic")
    /\ UNCHANGED <<my_file, data, args, m_lb, m_ub, lazy, dummy_constraint,
                   max_constraints_per_iteration, callback, bounds, ret_supp,
                   incumbent, candidate, written, passes>>

\* heuristic_solve: after the SubProblem pass of a round
heuristic_check ==
    /\ pc = "solved"
    /\ caller = "heuristic"
    /\ IF constraints_added > 0
       THEN /\ m_lb' = [c \in Cells |-> DivingLB(c, supp_level)]
            /\ dummy_constraint' = GrowthFloor(supp_level, args.multiplier)
            /\ constrs' = Append(constrs, GrowthFloor(supp_level, args.multiplier))
            /\ pc' = "master"
       ELSE /\ m_lb' = [c \in Cells |-> ResetLB(c)]
            /\ pc' = "redundant"
            /\ UNCHANGED <<dummy_constraint, constrs>>
    /\ UNCHANGED <<my_file, data, args, caller, i, m_ub, lazy, m_x, supp_level, a_lb, a_ub,
                   HIGH, LOW, HIGH_LOW_cells, constraints_added,
                   max_constraints_per_iteration, callback, bounds, ret_supp,
                   incumbent, candidate, written, round, passes>>

\* remove_redundant_suppressions, up to its SubProblem pass
remove_redundant_begin ==
    /\ pc = "redundant"
    /\ BeginPass(m_x, TRUE, TRUE, "redundant")
    /\ UNCHANGED <<my_file, data, args, m_lb, m_ub, constrs, lazy, m_x, dummy_constraint,
                   max_constraints_per_iteration, callback, bounds, ret_supp,
                   incumbent, candidate, written, round, passes>>

\* remove_redundant_suppressions, after its SubProblem pass
remove_redundant_end ==
    /\ pc = "solved"
    /\ caller = "redundant"
    /\ bounds' = [c \in Cells |-> InferenceBounds(c, supp_level, LOW, HIGH)]
    /\ supp_level' = [c \in Cells |->
                         IF Redundant(c, supp_level, LOW, HIGH) THEN 0
                         ELSE supp_level[c]]
    /\ ret_supp' = supp_level'
    /\ pc' = IF args.optimise THEN "optimise" ELSE "write"
    /\ UNCHANGED <<my_file, data, args, caller, i, m_lb, m_ub, constrs, lazy, m_x,
                   dummy_constraint, a_lb, a_ub, HIGH, LOW, HIGH_LOW_cells,
                   constraints_added, max_constraints_per_iteration, callback,
                   incumbent, candidate, written, round, passes>>

\* Solver.solve(complete=True) up to mdl.optimize(my_callback)
complete_solve ==
    /\ pc = "optimise"
    /\ max_constraints_per_iteration' = args.optimise_constraints
    /\ callback' = TRUE
    /\ pc' = "search"
    /\ UNCHANGED <<my_file, data, args, caller, i, m_lb, m_ub, constrs, lazy, m_x,
                   dummy_constraint, supp_level, a_lb, a_ub, HIGH, LOW,
                   HIGH_LOW_cells, constraints_added, bounds, ret_supp,
                   incumbent, candidate, written, round, passes>>

\* the search finds an integer solution better than its incumbent and calls
\* my_callback(where = MIPSOL) with it
my_callback ==
    /\ pc = "search"
    /\ \E p \in MasterFeasible(m_lb, m_ub, constrs, lazy) :
            /\ IF incumbent = Nothing THEN TRUE
               ELSE Objective(p) < Objective(incumbent)
            /\ candidate' = p
            /\ BeginPass(p, solve_default_refresh_bounds, solve_default_extended,
                         "callback")
    /\ UNCHANGED <<my_file, data, args, m_lb, m_ub, constrs, lazy, m_x, dummy_constraint,
                   max_constraints_per_iteration, callback, bounds, ret_supp,
                   incumbent, written, round, passes>>

\* my_callback returns: the search keeps the solution unless a lazy cut
\* registered by the callback cuts it off
callback_return ==
    /\ pc = "solved"
    /\ caller = "callback"
    /\ incumbent' = IF \A k \in lazy : Satisfies(candidate, k)
                       THEN candidate ELSE incumbent
    /\ pc' = "search"
    /\ UNCHANGED <<my_file, data, args, caller, i, m_lb, m_ub, constrs, lazy, m_x,
                   dummy_constraint, supp_level, a_lb, a_ub, HIGH, LOW,
                   HIGH_LOW_cells, constraints_added,
                   max_constraints_per_iteration, callback, bounds, ret_supp,
                   candidate, written, round, passes>>

\* mdl.optimize(my_callback) returns (optimality proved, time limit or gap):
\* var.x is the best incumbent; without one print_results fails
search_end ==
    /\ pc = "search"
    /\ IF incumbent = Nothing
       THEN pc' = "fatal" /\ UNCHANGED m_x
       ELSE pc' = "write" /\ m_x' = incumbent
    /\ UNCHANGED <<my_file, data, args, caller, i, m_lb, m_ub, constrs, lazy,
                   dummy_constraint, supp_level, a_lb, a_ub, HIGH, LOW,
                   HIGH_LOW_cells, constraints_added,
                   max_constraints_per_iteration, callback, bounds, ret_supp,
                   incumbent, candidate, written, round, passes>>

\* write.solution: the output modes followed here (np table, consistent table)
Modes == {0, 2}

\* find_most_central_consistent_solution works in halves: A and B are kept
\* doubled, and so are the deviations, so that every quantity is an integer
Midpoint2(bound) == bound[1] + bound[2]
HalfWidth2(bound) == bound[2] - bound[1]

\* ub of z_min: B - 1 if A - B == 0 and B > 0 else B
z_min_ub(bound) ==
    IF Midpoint2(bound) - HalfWidth2(bound) = 0 /\ HalfWidth2(bound) > 0
        THEN HalfWidth2(bound) - 2
        ELSE HalfWidth2(bound)

\* ub of z_max: B
z_max_ub(bound) == HalfWidth2(bound)

\* obj of both deviations of a cell
DeviationWeight(c) == IF data.cells[c].sensitive THEN 1 ELSE 100

\* A[cell] + z_max_vars[cell] - z_min_vars[cell]
Recentred(bnds, z_min, z_max) ==
    [c \in Cells |-> Midpoint2(bnds[c]) + z_max[c] - z_min[c]]

\* a relation constraint that only looks at the positive side
ConsistentHolds_one_sided(bnds, z_min, z_max) ==
    \A r \in Relations :
        SumOver(Recentred(bnds, z_min, z_max), Range(data.relations[r][1])) >= 0

\* the constraints of the LP: one equality per relation
ConsistentHolds(bnds, z_min, z_max) ==
    \A r \in Relations :
        SumOver(Recentred(bnds, z_min, z_max), Range(data.relations[r][1]))
            = SumOver(Recentred(bnds, z_min, z_max), Range(data.relations[r][2]))

\* the points of the LP's feasible region with deviations in whole halves
ConsistentFeasible(bnds) ==
    LET zero == [c \in Cells |-> 0]
        n == Len(data.cells)
    IN  {z \in Box(zero, [c \in Cells |-> z_min_ub(bnds[c])], n)
                \X Box(zero, [c \in Cells |-> z_max_ub(bnds[c])], n) :
            ConsistentHolds(bnds, z[1], z[2])}

\* the objective of the LP
DeviationCost(z) ==
    SumOver([c \in Cells |-> DeviationWeight(c) * (z[1][c] + z[2][c])], Cells)

\* model.optimize(): the optimal points among them
ConsistentOptimal(bnds) ==
    LET F == ConsistentFeasible(bnds)
        best == SetMin({DeviationCost(z) : z \in F})
    IN  {z \in F : DeviationCost(z) = best}

\* a half-width inflated by the smaller of the two deviations
NewDiff2_smaller(bnds, z_min, z_max) ==
    [c \in Cells |-> HalfWidth2(bnds[c]) + Min2(z_max[c], z_min[c])]

\* new_diff: B[cell] + max(z_max.x, z_min.x)
NewDiff2(bnds, z_min, z_max) ==
    [c \in Cells |-> HalfWidth2(bnds[c]) + Max2(z_max[c], z_min[c])]

\* run: write.solution(my_data, supp_level, bounds, mode, output)
write_solution ==
    /\ pc = "write"
    /\ LET w == WriterInput(ret_supp, bounds, m_x)
       IN  \E mode \in Modes :
             IF mode = 2
             THEN IF ConsistentFeasible(w.bounds) = {}
                  THEN \* no optimum: reading .x of a deviation fails
                       /\ written' = [supp_levels |-> w.supp_levels,
                                      bounds |-> w.bounds,
                                      new_nominal |-> Nothing,
                                      new_diff |-> Nothing]
                       /\ pc' = "fatal"
                  ELSE \E z \in ConsistentOptimal(w.bounds) :
                       /\ written' = [supp_levels |-> w.supp_levels,
                                      bounds |-> w.bounds,
                                      new_nominal |-> Recentred(w.bounds, z[1], z[2]),
                                      new_diff |-> NewDiff2(w.bounds, z[1], z[2])]
                       /\ pc' = "done"
             ELSE /\ written' = [supp_levels |-> w.supp_levels,
                                 bounds |-> w.bounds,
                                 new_nominal |-> Nothing,
                                 new_diff |-> Nothing]
                  /\ pc' = "done"
    /\ UNCHANGED <<my_file, data, args, caller, i, m_lb, m_ub, constrs, lazy, m_x,
                   dummy_constraint, supp_level, a_lb, a_ub, HIGH, LOW,
                   HIGH_LOW_cells, constraints_added,
                   max_constraints_per_iteration, callback, bounds, ret_supp,
                   incumbent, candidate, round, passes>>

\* the state after Solver(my_data, ignore_starting_constraints) is built
Constructed(start_pc, pattern) ==
    /\ pc = start_pc
    /\ caller = "none"
    /\ i = 1
    /\ m_lb = [c \in Cells |-> InitialLB(c)]
    /\ m_ub = [c \in Cells |-> InitialUB(c)]
    /\ constrs = IF args.ignore_starting_constraints THEN <<>> ELSE InitialConstraints
    /\ lazy = {}
    /\ m_x = pattern
    /\ dummy_constraint = NoConstraint
    /\ supp_level = [c \in Cells |-> 0]
    /\ a_lb = [c \in Cells |-> 0]
    /\ a_ub = [c \in Cells |-> 0]
    /\ HIGH = default_nominal_dict
    /\ LOW = default_nominal_dict
    /\ HIGH_LOW_cells = {}
    /\ constraints_added = 0
    /\ max_constraints_per_iteration = default_max_iterations_per_sub_problem
    /\ callback = FALSE
    /\ bounds = Nothing
    /\ ret_supp = Nothing
    /\ incumbent = Nothing
    /\ candidate = Nothing
    /\ written = [supp_levels |-> Nothing, bounds |-> Nothing,
                  new_nominal |-> Nothing, new_diff |-> Nothing]
    /\ round = 0
    /\ passes = 0

Init ==
    /\ my_file = Nothing
    /\ data \in Instances
    /\ args \in Arguments
    /\ Constructed("start", [c \in Cells |-> 0])

Next ==
    \/ solve_heuristic
    \/ heuristic_round
    \/ process_upper_protection_level
    \/ process_lower_protection_level
    \/ heuristic_check
    \/ remove_redundant_begin
    \/ remove_redundant_end
    \/ complete_solve
    \/ my_callback
    \/ callback_return
    \/ search_end
    \/ write_solution

Spec == Init /\ [][Next]_vars

\* the same behaviours, the driver never stopping while it has a step to take
\* (single-threaded, synchronous control flow; every oracle call returns)
\* heuristic_solve on its own: the loop runs until it breaks or the Master fails
NextDive ==
    \/ solve_heuristic
    \/ heuristic_round
    \/ process_upper_protection_level
    \/ process_lower_protection_level
    \/ heuristic_check

\* the loop is synchronous: a step that can be taken is taken
SpecDive == Init /\ [][NextDive]_vars /\ WF_vars(NextDive)

-----------------------------------------------------------------------------
(* The protection check applied to a given pattern: SubProblem.solve with    *)
(* refresh_bounds=True run twice against the pattern, then redundancy        *)
(* removal on it.  The pattern is any one within the Master's variable       *)
(* bounds.                                                                   *)

recheck_begin ==
    /\ pc = "recheck"
    /\ BeginPass(m_x, TRUE, FALSE, "recheck")
    /\ UNCHANGED <<my_file, data, args, m_lb, m_ub, constrs, lazy, m_x, dummy_constraint,
                   max_constraints_per_iteration, callback, bounds, ret_supp,
                   incumbent, candidate, written, round, passes>>

recheck_end ==
    /\ pc = "solved"
    /\ caller = "recheck"
    /\ passes' = passes + 1
    /\ pc' = IF passes + 1 < 2 THEN "recheck" ELSE "redundant"
    /\ UNCHANGED <<my_file, data, args, caller, i, m_lb, m_ub, constrs, lazy, m_x,
                   dummy_constraint, supp_level, a_lb, a_ub, HIGH, LOW,
                   HIGH_LOW_cells, constraints_added,
                   max_constraints_per_iteration, callback, bounds, ret_supp,
                   incumbent, candidate, written, round>>

InitCheck ==
    /\ my_file = Nothing
    /\ data \in Instances
    /\ args \in Arguments
    /\ \E p \in [Cells -> {0, 1}] :
            /\ \A c \in Cells : InitialLB(c) <= p[c] /\ p[c] <= InitialUB(c)
            /\ Constructed("recheck", p)
    
NextCheck ==
    \/ recheck_begin
    \/ process_upper_protection_level
    \/ process_lower_protection_level
    \/ recheck_end
    \/ remove_redundant_begin
    \/ remove_redundant_end

SpecCheck == InitCheck /\ [][NextCheck]_vars

-----------------------------------------------------------------------------
(* Loading an input file and building the Solver on it: read.data, run *)

\* the lines offered for the three cells of a table with one relation:
\* plain, sensitive, structural zero, zero not marked "z", lower bound above
\* the upper bound, negative nominal
CellLines ==
    << { <<2, 1, "s", 1, 3, 0, 0>>,
         <<2, 1, "u", 1, 3, 1, 1>>,
         <<0, 1, "z", 0, 0, 0, 0>>,
         <<0, 1, "s", 0, 1, 0, 0>>,
         <<-2, 1, "s", -3, -1, 0, 0>> },
       { <<3, 1, "s", 2, 4, 0, 0>>,
         <<3, 1, "u", 2, 4, 1, 1>>,
         <<3, 1, "s", 4, 2, 0, 0>> },
       { <<5, 1, "u", 3, 7, 1, 2>>,
         <<5, 1, "u", 4, 6, 1, 1>>,
         <<5, 1, "u", 3, 7, 0, 0>>,
         <<5, 1, "s", 3, 7, 0, 0>> } >>

\* the relation lines offered: cell ids up to 4 (4 is not a cell) and
\* coefficients 1, -1 and 2
RelationLines ==
    { << <<1, 1>>, <<2, k>>, <<id, -1>> >> : k \in {1, 2}, id \in {3, 4} }

\* an input file: <<cell lines, relation lines>>
InputFiles ==
    { << <<a, b, c>>, <<r>> >> :
        a \in CellLines[1], b \in CellLines[2], c \in CellLines[3],
        r \in RelationLines }

\* raise ValueError("variable {} coefficient {} not 1 or -1")
CoefficientRaises(file) ==
    \E r \in DOMAIN file[2] : \E k \in DOMAIN file[2][r] :
        ~IsPlus(file[2][r][k]) /\ ~IsMinus(file[2][r][k])

\* my_data["cells"][cell]["relations"]: KeyError for a cell that was not read
CellLookupRaises(file) ==
    \E r \in DOMAIN file[2] : \E k \in DOMAIN file[2][r] :
        file[2][r][k][1] \notin DOMAIN file[1]

\* the two checks of the cell lines that print a ValueError and go on
invalid_zeros(file) ==
    \E c \in DOMAIN file[1] : file[1][c][1] = 0 /\ file[1][c][3] # "z"

invalid_bounds(file) ==
    \E c \in DOMAIN file[1] : file[1][c][4] > file[1][c][5]

\* read.data(my_file): returns the data object or raises
read_data ==
    /\ pc = "read"
    /\ IF CoefficientRaises(my_file) \/ CellLookupRaises(my_file)
       THEN /\ pc' = "fatal"
            /\ UNCHANGED data
       ELSE /\ data' = ReadData(my_file[1], my_file[2])
            /\ pc' = "loaded"
    /\ UNCHANGED <<my_file, args, caller, i, m_lb, m_ub, constrs, lazy, m_x,
                   dummy_constraint, supp_level, a_lb, a_ub, HIGH, LOW,
                   HIGH_LOW_cells, constraints_added,
                   max_constraints_per_iteration, callback, bounds, ret_supp,
                   incumbent, candidate, written, round, passes>>

\* run: solver = Solver(my_data, my_args.ignore_starting_constraints)
Solver_init ==
    /\ pc = "loaded"
    /\ pc' = "start"
    /\ caller' = "none"
    /\ i' = 1
    /\ m_lb' = [c \in Cells |-> InitialLB(c)]
    /\ m_ub' = [c \in Cells |-> InitialUB(c)]
    /\ constrs' = IF args.ignore_starting_constraints THEN <<>> ELSE InitialConstraints
    /\ lazy' = {}
    /\ m_x' = [c \in Cells |-> 0]
    /\ dummy_constraint' = NoConstraint
    /\ supp_level' = [c \in Cells |-> 0]
    /\ a_lb' = [c \in Cells |-> 0]
    /\ a_ub' = [c \in Cells |-> 0]
    /\ HIGH' = default_nominal_dict
    /\ LOW' = default_nominal_dict
    /\ HIGH_LOW_cells' = {}
    /\ constraints_added' = 0
    /\ max_constraints_per_iteration' = default_max_iterations_per_sub_problem
    /\ callback' = FALSE
    /\ bounds' = Nothing
    /\ ret_supp' = Nothing
    /\ incumbent' = Nothing
    /\ candidate' = Nothing
    /\ written' = [supp_levels |-> Nothing, bounds |-> Nothing,
                   new_nominal |-> Nothing, new_diff |-> Nothing]
    /\ round' = 0
    /\ passes' = 0
    /\ UNCHANGED <<my_file, data, args>>

\* before read.data is called nothing of the core exists
InitLoad ==
    /\ my_file \in InputFiles
    /\ args \in [heuristic_constraints       : {default_heuristic_constraints},
                 optimise_constraints        : {default_optimise_constraints},
                 multiplier                  : {default_multiplier},
                 ignore_starting_constraints : BOOLEAN,
                 optimise                    : {FALSE}]
    /\ pc = "read"
    /\ data = Nothing
    /\ caller = "none"
    /\ i = 1
    /\ m_lb = Nothing /\ m_ub = Nothing /\ constrs = Nothing /\ lazy = Nothing
    /\ m_x = Nothing /\ dummy_constraint = Nothing /\ supp_level = Nothing
    /\ a_lb = Nothing /\ a_ub = Nothing /\ HIGH = Nothing /\ LOW = Nothing
    /\ HIGH_LOW_cells = Nothing
    /\ constraints_added = 0
    /\ max_constraints_per_iteration = default_max_iterations_per_sub_problem
    /\ callback = FALSE
    /\ bounds = Nothing /\ ret_supp = Nothing /\ incumbent = Nothing
    /\ candidate = Nothing /\ written = Nothing
    /\ round = 0
    /\ passes = 0

NextLoad ==
    \/ read_data
    \/ Solver_init

SpecLoad == InitLoad /\ [][NextLoad]_vars

-----------------------------------------------------------------------------
(* Properties *)

\* the Attacker's maximum and minimum of a cell under a pattern
AttackerMax(p, c) == ObjVal(UpdatedLB(p), UpdatedUB(p), c, TRUE)
AttackerMin(p, c) == ObjVal(UpdatedLB(p), UpdatedUB(p), c, FALSE)

\* every sensitive cell is protected in both directions under a pattern
ProtectionFeasible(p) ==
    \A c \in Sensitive :
        /\ AttackerMax(p, c) >= nominal(c) + data.sensitive_cells[c].UPL
        /\ AttackerMin(p, c) <= nominal(c) - data.sensitive_cells[c].LPL

\* the pattern that suppresses every non-zero cell
AllSuppressed == [c \in Cells |-> IF nominal(c) = 0 THEN 0 ELSE 1]

\* the number of non-zero non-sensitive cells
NumSecondaryCandidates ==
    Cardinality({c \in Cells : nominal(c) # 0 /\ ~data.cells[c].sensitive})

\* the pool the Solver was built with
SeededPool == IF args.ignore_starting_constraints THEN <<>> ELSE InitialConstraints

\* C1: when heuristic_solve returns, the last Master pattern protects every
\* sensitive cell in both directions, and the fresh pass that follows
\* (bounds reset, same pattern) adds no cut.
C1_DivingReturnsProtected ==
    /\ pc = "redundant" => ProtectionFeasible(m_x)
    /\ caller = "redundant" => constraints_added = 0

\* C1 witness: a dive of several rounds has returned and the fresh pass is over
C1_Witness ==
    /\ pc = "solved"
    /\ caller = "redundant"
    /\ round >= 3
    /\ constraints_added = 0

\* C2: in the pattern handed to the writer every sensitive cell has value 1
\* and every zero-nominal cell value 0.
C2_WriterPatternKeepsPrimaries ==
    pc = "done" =>
        \A c \in Cells :
            /\ data.cells[c].sensitive => written.supp_levels[c] = 1
            /\ nominal(c) = 0 => written.supp_levels[c] = 0

\* C3: if the pattern given to remove_redundant_suppressions is protection
\* feasible, so is the reduced pattern it returns.
C3_RemovalConservative ==
    (ret_supp # Nothing /\ ProtectionFeasible(m_x)) => ProtectionFeasible(ret_supp)

\* C3 witness: a protection-feasible pattern has lost a non-sensitive cell
C3_Witness ==
    /\ ret_supp # Nothing
    /\ ProtectionFeasible(m_x)
    /\ \E c \in Cells : ~data.cells[c].sensitive /\ m_x[c] = 1 /\ ret_supp[c] = 0
    /\ \E c \in Cells : ~data.cells[c].sensitive /\ ret_supp[c] = 1

\* C4: with the exact phase enabled the writer receives the pattern of the
\* best incumbent of the search.
C4_WriterGetsBestIncumbent ==
    (pc = "done" /\ args.optimise) => written.supp_levels = incumbent

\* C5: every solution handed to my_callback is checked by a pass that starts
\* from bounds reset to nominal and runs against that solution's pattern; a
\* solution whose pass adds no cut, and every incumbent, is protection feasible.
C5_IncumbentsChecked ==
    /\ caller = "callback" =>
          /\ supp_level = candidate
          /\ a_ub = UpdatedUB(candidate)
          /\ a_lb = UpdatedLB(candidate)
    /\ (caller = "callback" /\ pc = "upl" /\ i = 1) =>
          (HIGH = default_nominal_dict /\ LOW = default_nominal_dict)
    /\ (caller = "callback" /\ pc = "solved" /\ constraints_added = 0) =>
          ProtectionFeasible(candidate)
    /\ incumbent # Nothing => ProtectionFeasible(incumbent)

\* C5 witness: the search holds an incumbent after having cut off a solution
C5_Witness ==
    /\ pc = "search"
    /\ incumbent # Nothing
    /\ lazy # {}

C7_SuppressedSetGrows ==
    [][pc = "master" => \A c \in Cells : m_x[c] <= m_x'[c]]_vars

\* C7 witness: a later round's pattern holds a cell the round before did not
C7_Witness ==
    /\ caller = "heuristic"
    /\ pc = "upl"
    /\ round >= 2
    /\ \E c \in Cells : m_lb[c] = 0 /\ m_x[c] = 1
    /\ \E c \in Cells : ~data.cells[c].sensitive /\ m_lb[c] = 1

\* C8: the right-hand side of the growth floor never decreases from one round
\* of a dive to the next.
C8_GrowthFloorGrows ==
    [][(dummy_constraint # NoConstraint /\ dummy_constraint' # NoConstraint)
          => dummy_constraint'.rhs >= dummy_constraint.rhs]_vars

\* C8 witness: a second growth floor, larger than the number of suppressions
\* of the first round, is in the pool
C8_Witness ==
    /\ pc = "master"
    /\ round >= 2
    /\ dummy_constraint # NoConstraint
    /\ dummy_constraint.rhs > Cardinality(Sensitive) * args.multiplier[1]

\* C9: two passes with bounds refreshed against the same protection-feasible
\* pattern add no cut and leave the constraint pool as it was.
C9_RecheckIdempotent ==
    (caller = "recheck" /\ ProtectionFeasible(m_x)) =>
        /\ constraints_added = 0
        /\ constrs = SeededPool
        /\ lazy = {}

\* C9 witness: the second pass against a protection-feasible pattern with a
\* secondary suppression is over
C9_Witness ==
    /\ passes = 2
    /\ ProtectionFeasible(m_x)
    /\ \E c \in Cells : ~data.cells[c].sensitive /\ m_x[c] = 1
    /\ constraints_added = 0

\* C10: in the reconstructed table every relation is additive: the values
\* midpoint + up-deviation - down-deviation of its positive side add up to
\* those of its negative side.
C10_ReconstructionAdditive ==
    (pc = "done" /\ written.new_nominal # Nothing) =>
        \A r \in Relations :
            SumOver(written.new_nominal, Range(data.relations[r][1]))
                = SumOver(written.new_nominal, Range(data.relations[r][2]))

\* C10 witness: a table was reconstructed with a cell moved off its midpoint
C10_Witness ==
    /\ pc = "done"
    /\ written.new_nominal # Nothing
    /\ \E c \in Cells : written.new_nominal[c] # Midpoint2(written.bounds[c])

\* C11: for every cell the published half-width is at least the original
\* half-width (high - low)/2, and the published interval, reconstructed value
\* -/+ half-width, contains the inference interval [low, high] (all doubled).
C11_PublishedIntervalCovers ==
    (pc = "done" /\ written.new_nominal # Nothing) =>
        \A c \in Cells :
            /\ written.new_diff[c] >= written.bounds[c][2] - written.bounds[c][1]
            /\ written.new_nominal[c] - written.new_diff[c] <= 2 * written.bounds[c][1]
            /\ written.new_nominal[c] + written.new_diff[c] >= 2 * written.bounds[c][2]

\* C11 witness: a reconstructed table in which a half-width was inflated
C11_Witness ==
    /\ pc = "done"
    /\ written.new_nominal # Nothing
    /\ \E c \in Cells :
          written.new_diff[c] > written.bounds[c][2] - written.bounds[c][1]

\* one of the four malformed-instance conditions holds of an input file
MalformedInstance(file) ==
    \/ CellLookupRaises(file)
    \/ CoefficientRaises(file)
    \/ invalid_zeros(file)
    \/ invalid_bounds(file)

\* C12: a file with an undefined cell in a relation, a coefficient other than
\* +1/-1, a zero nominal not marked as structural zero or a lower bound above
\* the upper bound never yields a data object, and no Solver is built on it.
C12_MalformedNeverLoaded ==
    MalformedInstance(my_file) => pc \notin {"loaded", "start"}

\* the cells of a relation, and the side of a cell and the side opposite to it
RelationCells(r) == Range(data.relations[r][1]) \cup Range(data.relations[r][2])
SameSide(r, c) ==
    IF c \in Range(data.relations[r][1])
        THEN Range(data.relations[r][1]) ELSE Range(data.relations[r][2])
OppositeSide(r, c) ==
    IF c \in Range(data.relations[r][1])
        THEN Range(data.relations[r][2]) ELSE Range(data.relations[r][1])

\* static contribution of the other sensitive cells: UB over one set of cells,
\* LB over the other
OtherSensitive(c, ub_cells, lb_cells) ==
    SumOver([d \in Cells |-> data.cells[d].UB],
            {d \in ub_cells : d # c /\ d \in Sensitive})
    + SumOver([d \in Cells |-> data.cells[d].LB],
              {d \in lb_cells : d # c /\ d \in Sensitive})

\* sensitive cells of a relation whose upper (lower) limit the others do not meet
UpperUnmet(r) ==
    {c \in RelationCells(r) \cap Sensitive :
        OtherSensitive(c, OppositeSide(r, c), SameSide(r, c))
            < data.sensitive_cells[c].UPL}
LowerUnmet(r) ==
    {c \in RelationCells(r) \cap Sensitive :
        OtherSensitive(c, SameSide(r, c), OppositeSide(r, c))
            < data.sensitive_cells[c].LPL}

\* positions in the pool of the constraints with a given name
Named(name) == {k \in DOMAIN constrs : constrs[k].name = name}

\* the Solver has just been built with seeding enabled
Seeded == pc = "start" /\ ~args.ignore_starting_constraints

\* C13 (as amended): seeding adds a static upper (lower) protection constraint
\* for a relation and a sensitive cell of it exactly when the other sensitive
\* cells' static contribution is strictly below the cell's UPL (LPL); a
\* relation whose sensitive cells all have both limits met gets no protection
\* constraint (bridge constraints are still added to it when it has fewer
\* than two sensitive cells).
C13_SeedingExactlyWhenUnmet ==
    Seeded =>
        \A r \in Relations :
            /\ Cardinality(Named(<<"init_upper", r>>)) = Cardinality(UpperUnmet(r))
            /\ Cardinality(Named(<<"init_lower", r>>)) = Cardinality(LowerUnmet(r))
            /\ \A c \in UpperUnmet(r) : \E k \in Named(<<"init_upper", r>>) :
                    /\ constrs[k].rhs = data.sensitive_cells[c].UPL
                    /\ constrs[k].coef[c] = 0
            /\ \A c \in LowerUnmet(r) : \E k \in Named(<<"init_lower", r>>) :
                    /\ constrs[k].rhs = data.sensitive_cells[c].LPL
                    /\ constrs[k].coef[c] = 0

\* C13 witness: a relation with one sensitive cell that gets an upper
\* constraint and another whose limits the first one already meets
C13_Witness ==
    /\ Seeded
    /\ \E r \in Relations :
          /\ UpperUnmet(r) # {}
          /\ \E c \in (RelationCells(r) \cap Sensitive) \ (UpperUnmet(r) \cup LowerUnmet(r)) :
                data.sensitive_cells[c].UPL > 0

\* C13 as stated: a relation whose sensitive cells all have both limits met
\* gets no constraint at all from seeding.
C13_NoConstraintWhenMet ==
    Seeded =>
        \A r \in Relations :
            (UpperUnmet(r) = {} /\ LowerUnmet(r) = {}) =>
                ~\E k \in DOMAIN constrs : constrs[k].name[2] = r

\* C20: with seeding enabled, every cell c of a relation with fewer than two
\* sensitive cells has a bridge constraint that a pattern satisfies exactly
\* when c is not suppressed or another cell of the relation with non-zero
\* nominal is; a relation with two or more sensitive cells has none.
C20_BridgeForcesOtherNonZero ==
    Seeded =>
        \A r \in Relations :
            IF Cardinality(RelationCells(r) \cap Sensitive) < 2
            THEN \A c \in RelationCells(r) :
                    /\ Named(<<"init_bridge", r, c>>) # {}
                    /\ \A k \in Named(<<"init_bridge", r, c>>) :
                       \A p \in [Cells -> {0, 1}] :
                          Satisfies(p, constrs[k])
                             <=> (p[c] = 1 =>
                                    \E d \in RelationCells(r) \ {c} :
                                        nominal(d) # 0 /\ p[d] = 1)
            ELSE \A c \in RelationCells(r) : Named(<<"init_bridge", r, c>>) = {}

\* C14: a SubProblem pass (UPL loop and LPL loop together) never has more
\* cuts added than max_constraints_per_iteration.
C14_CutsWithinCap ==
    caller # "none" => constraints_added <= max_constraints_per_iteration

\* a step that leaves every running bound where it was or widens it
BoundsWiden == \A c \in Cells : HIGH'[c] >= HIGH[c] /\ LOW'[c] <= LOW[c]

\* a step of reset_high_low: the start of a diving run or of a pass with
\* refresh_bounds = True
BoundsReset ==
    /\ pc \in {"start", "redundant", "search", "recheck"}
    /\ HIGH' = default_nominal_dict
    /\ LOW' = default_nominal_dict

\* C15: LOW[c] <= nominal(c) <= HIGH[c] always; a step either widens the
\* running bounds or is a reset to nominal made by reset_high_low at the
\* start of a diving run or of a refreshed pass; between the rounds of one
\* diving run the bounds are never reset.
C15_RunningBoundsMonotone ==
    /\ [](\A c \in Cells : LOW[c] <= nominal(c) /\ nominal(c) <= HIGH[c])
    /\ [][BoundsWiden \/ BoundsReset]_vars
    /\ [][(caller = "heuristic" /\ caller' = "heuristic") => BoundsWiden]_vars

\* C15 witness: a later round of a dive starts with bounds widened by an
\* earlier round
C15_Witness ==
    /\ caller = "heuristic"
    /\ pc = "upl"
    /\ i = 1
    /\ round >= 2
    /\ \E c \in Cells : LOW[c] < nominal(c) /\ nominal(c) < HIGH[c]

\* the growth floors of a pool, and the pool without them
IsFloor(k) == k.name = <<"dummy">>
Floors(pool) == {j \in DOMAIN pool : IsFloor(pool[j])}
Kept(pool) == SelectSeq(pool, LAMBDA e : ~IsFloor(e))
IsPrefix(a, b) == Len(a) <= Len(b) /\ SubSeq(b, 1, Len(a)) = a

\* C16: seeded constraints and protection cuts are never removed from the
\* pool; a growth floor is removed only by the driver's step after a Master
\* solve; the pool holds at most one growth floor; no floor is in the pool
\* during a SubProblem pass nor once heuristic_solve has returned.
C16_OnlyGrowthFloorRemoved ==
    /\ [](Cardinality(Floors(constrs)) <= 1)
    /\ [](pc \notin {"start", "master", "fatal"} => Floors(constrs) = {})
    /\ [][IsPrefix(Kept(constrs), Kept(constrs'))]_vars
    /\ [][Cardinality(Floors(constrs')) < Cardinality(Floors(constrs))
             => (pc = "master" /\ pc' = "upl")]_vars

\* C16 witness: a pass of a later round is running, the floor of the round
\* before removed and cuts of earlier rounds still in the pool
C16_Witness ==
    /\ caller = "heuristic"
    /\ pc = "upl"
    /\ round >= 3
    /\ dummy_constraint # NoConstraint
    /\ Floors(constrs) = {}
    /\ \E j \in DOMAIN constrs : constrs[j].name[1] = "lazy_upper"

\* C17: when heuristic_solve returns every Master variable has its
\* structural lower bound (1 if sensitive, 0 otherwise), and the upper
\* bounds are those the variables were created with.
C17_LowerBoundsRestored ==
    /\ pc = "redundant" => m_lb = [c \in Cells |-> IF c \in Sensitive THEN 1 ELSE 0]
    /\ m_ub = [c \in Cells |-> IF nominal(c) = 0 THEN 0 ELSE 1]

\* C17 witness: a dive returns after two rounds with cuts, the second of
\* which raised the lower bound of a non-sensitive cell
C17_Witness ==
    /\ pc = "redundant"
    /\ round >= 3
    /\ \E c \in Cells \ Sensitive : m_x[c] = 1

\* C18: every cut a SubProblem pass emits is violated by the pattern pushed
\* to the Attacker for that pass (left-hand side strictly below the limit),
\* so the pattern of a diving round with cuts violates the pool of the next
\* Master solve, and a candidate whose pass added a cut violates a lazy cut.
C18_CutsExcludePattern ==
    /\ [][(pc \in {"upl", "lpl"} /\ constraints_added' > constraints_added) =>
            IF callback
            THEN \E k \in lazy' : ~Satisfies(supp_level, k)
            ELSE /\ Len(constrs') = Len(constrs) + 1
                 /\ ~Satisfies(supp_level, constrs'[Len(constrs')])]_vars
    /\ []((pc = "master" /\ round >= 1) =>
            \E j \in DOMAIN constrs :
                constrs[j].name[1] \in {"lazy_upper", "lazy_lower"}
                /\ ~Satisfies(m_x, constrs[j]))
    /\ []((caller = "callback" /\ pc = "solved" /\ constraints_added > 0) =>
            \E k \in lazy : ~Satisfies(candidate, k))

\* C18 witness: a candidate of the exact search has drawn a lazy cut while
\* cuts of the dive, upper and lower, are in the pool
C18_Witness ==
    /\ caller = "callback"
    /\ pc = "solved"
    /\ constraints_added > 0
    /\ \E j \in DOMAIN constrs : constrs[j].name[1] = "lazy_upper"
    /\ \E j \in DOMAIN constrs : constrs[j].name[1] = "lazy_lower"

\* the rule of the UPL cut with the roles of UB and LB swapped and LPL as limit
MirroredUpperCoef(sensitive_cell, rc) ==
    [c \in Cells |->
        IF rc[c] > 0 /\ nominal(c) # 0
            THEN Min2(Abs(rc[c]) * data.cells[c].LB,
                      data.sensitive_cells[sensitive_cell].LPL)
        ELSE IF rc[c] < 0 /\ nominal(c) # 0
            THEN Min2(Abs(rc[c]) * data.cells[c].UB,
                      data.sensitive_cells[sensitive_cell].LPL)
        ELSE 0]

\* C19: whenever a pass is about to emit an LPL cut, the cut has, for the
\* reduced costs at hand, the coefficients the UPL rule gives with UB and LB
\* swapped: the same cells selected, zero-nominal cells left out of both.
C19_LowerCutMirrorsUpper ==
    (pc = "lpl"
        /\ WithinCap(constraints_added, max_constraints_per_iteration)
        /\ LowerUnproven(non_increasing_LPL_sensitive_cells[i], LOW)
        /\ LowerViolated(non_increasing_LPL_sensitive_cells[i],
                         ObjVal(a_lb, a_ub, non_increasing_LPL_sensitive_cells[i], FALSE)))
    => \A rc \in OptimalRC(a_lb, a_ub, non_increasing_LPL_sensitive_cells[i], FALSE) :
          LowerCut(non_increasing_LPL_sensitive_cells[i], rc).coef
              = MirroredUpperCoef(non_increasing_LPL_sensitive_cells[i], rc)

\* the input contract of an instance: LB >= 0, UB >= 0 for every cell and a
\* nominal table that satisfies every relation
InputContract ==
    /\ \A c \in Cells : data.cells[c].LB >= 0 /\ data.cells[c].UB >= 0
    /\ GammaHolds(default_nominal_dict)

\* C21: once update_bounds has been called on an instance that meets the
\* input contract, the nominal value of every cell lies within the bounds of
\* its Attacker variable, the nominal table satisfies every relation, and so
\* the Attacker LP has a feasible point: optimise never ends infeasible.
C21_AttackerAlwaysFeasible ==
    (caller # "none" /\ InputContract) =>
        /\ \A c \in Cells : a_lb[c] <= nominal(c) /\ nominal(c) <= a_ub[c]
        /\ \E y \in AttackerFeasible(a_lb, a_ub) : \A c \in Cells : y[c] = nominal(c)

\* C21 witness: in a later round of a dive the Attacker holds a pattern with
\* a secondary suppression whose variable has room on both sides of the
\* nominal, next to a cell that is not suppressed
C21_Witness ==
    /\ caller = "heuristic"
    /\ round >= 2
    /\ InputContract
    /\ \E c \in Cells \ Sensitive :
          supp_level[c] = 1 /\ a_lb[c] < nominal(c) /\ nominal(c) < a_ub[c]
    /\ \E c \in Cells : supp_level[c] = 0 /\ nominal(c) # 0

\* a value the Attacker can give a cell under the bounds it currently holds
Attainable(c, v) == \E y \in AttackerFeasible(a_lb, a_ub) : y[c] = v

\* the turn of the UPL (LPL) loop at hand is given to a cell whose running
\* bound already proves the limit, so the Attacker is not solved for it
SkipsUpper ==
    /\ pc = "upl"
    /\ WithinCap(constraints_added, max_constraints_per_iteration)
    /\ ~UpperUnproven(non_increasing_UPL_sensitive_cells[i], HIGH)
SkipsLower ==
    /\ pc = "lpl"
    /\ WithinCap(constraints_added, max_constraints_per_iteration)
    /\ ~LowerUnproven(non_increasing_LPL_sensitive_cells[i], LOW)

\* C22: whenever the UPL (LPL) turn of a sensitive cell c is skipped because
\* HIGH[c] >= nominal + UPL (LOW[c] <= nominal - LPL), the Attacker can give
\* c the value HIGH[c] (LOW[c]) under the pattern it currently holds; this
\* holds in every pass, those of the later rounds of a dive included, where
\* the running bounds come from earlier patterns.
C22_SkippingSound ==
    /\ SkipsUpper =>
          Attainable(non_increasing_UPL_sensitive_cells[i],
                     HIGH[non_increasing_UPL_sensitive_cells[i]])
    /\ SkipsLower =>
          Attainable(non_increasing_LPL_sensitive_cells[i],
                     LOW[non_increasing_LPL_sensitive_cells[i]])

\* C22 witness: a later round of a dive starts by skipping a cell with a
\* positive UPL, on a bound recorded in an earlier round under a pattern
\* with fewer suppressions
C22_Witness ==
    /\ caller = "heuristic"
    /\ round >= 2
    /\ i = 1
    /\ SkipsUpper
    /\ data.sensitive_cells[non_increasing_UPL_sensitive_cells[1]].UPL > 0
    /\ num_suppressions(supp_level) > num_suppressions(m_lb)

\* C23: once update_bounds has been called, the bounds of every Attacker
\* variable are those update_bounds derives from the pattern the Attacker
\* holds: [nominal - LB * supp_level, nominal + UB * supp_level], after
\* update_bounds, during and after a SubProblem pass and after
\* remove_redundant_suppressions.
C23_PatternAgreesWithBounds ==
    caller # "none" =>
        /\ a_ub = UpdatedUB(supp_level)
        /\ a_lb = UpdatedLB(supp_level)

\* C24: for the inference intervals remove_redundant_suppressions returns,
\* both deviation variables of every cell have an upper bound >= their lower
\* bound 0 (the down-deviation of a cell with interval lower bound 0 and
\* positive width included), and the reconstruction LP is feasible when
\* every nominal lies in its interval and the nominal table satisfies every
\* relation.
C24_DeviationBoxesValid ==
    bounds # Nothing =>
        /\ \A c \in Cells : z_min_ub(bounds[c]) >= 0 /\ z_max_ub(bounds[c]) >= 0
        /\ ((\A c \in Cells : bounds[c][1] <= nominal(c) /\ nominal(c) <= bounds[c][2])
                /\ GammaHolds(default_nominal_dict))
              => ConsistentFeasible(bounds) # {}

====
